---- MODULE Spec2Model ----
(***************************************************************************)
(* Model of twoblock/_preproc_utilities.py: robust centring and scaling    *)
(* helpers (_handle_zeros_in_scale, _check_trimming, median, mad, mean,    *)
(* std, l1median, kstepLTS, scaleTau2, scale_data).                        *)
(*                                                                         *)
(* Numbers are exact: a float is modelled by a rational, by one of the     *)
(* IEEE specials NaN, +inf, -inf, or by a symbolic term (a square root of  *)
(* a non-square rational, or a quotient / sum / product that has such a    *)
(* root as operand).  Rounding error of binary floating point is not       *)
(* modelled.                                                               *)
(***************************************************************************)
EXTENDS Integers, Sequences, FiniteSets, TLC

VARIABLES
    pc,          \* position of the modelled call: "start", a step label, "done"
    op,          \* name of the function that was applied ("none" before)
    X,           \* data matrix: sequence of rows, each a sequence of numbers
    trimming,    \* trimming fraction handed to mean / std / _check_trimming
    outcome,     \* [kind |-> "return", value] or [kind |-> "raise", exc, by]
    events,      \* what the call did, in order (calls made, divisions by zero)
    kwargs,      \* keyword arguments of l1median (a function from names)
    heap,        \* arrays by address: the caller's and the callee's objects
    lts,         \* kstepLTS: per run, the loop's local variables
    vshift,      \* kstepLTS: the translation v between the two runs
    maxit,       \* kstepLTS: maxit
    tol,         \* kstepLTS: tol
    loc,         \* scale_data: location estimate m
    scl,         \* the scale the caller hands over (output of std/mad/scaleTau2)
    s_local      \* the callee's local that holds what _handle_zeros_in_scale
                 \* returned (s in scale_data, dists in _l1m_jacobian)

vars == <<pc, op, X, trimming, outcome, events, kwargs, heap, lts, vshift,
          maxit, tol, loc, scl, s_local>>

----------------------------------------------------------------------------
(* Exact arithmetic with IEEE specials.                                    *)

AbsInt(i) == IF i < 0 THEN -i ELSE i

SignInt(i) == IF i < 0 THEN -1 ELSE IF i = 0 THEN 0 ELSE 1

RECURSIVE Gcd(_, _)
Gcd(a, b) == IF b = 0 THEN a ELSE Gcd(b, a % b)

\* the rational n/d in lowest terms with a positive denominator (d # 0)
Rat(n, d) ==
    LET g == Gcd(AbsInt(n), AbsInt(d))
        s == SignInt(d)
    IN  [k |-> "num", n |-> s * (n \div g), d |-> AbsInt(d) \div g]

Int2Num(i) == [k |-> "num", n |-> i, d |-> 1]

NaN == [k |-> "nan"]

Inf(s) == [k |-> "inf", s |-> s]

Zero == Int2Num(0)

One == Int2Num(1)

IsNum(a) == a.k = "num"

IsNaN(a) == a.k = "nan"

IsInf(a) == a.k = "inf"

\* a root or a term built on one: finite, value not available as a rational
IsSym(a) == a.k \in {"sqrt", "div", "add", "mul", "neg"}

\* sign of a rational or an infinity
Sign(a) == IF IsInf(a) THEN a.s ELSE SignInt(a.n)

\* x == 0.0 as numpy evaluates it (False for NaN; a root of a non-square is not 0)
IsZero(a) == IsNum(a) /\ a.n = 0

Neg(a) ==
    CASE IsNaN(a) -> NaN
      [] IsInf(a) -> Inf(-a.s)
      [] IsNum(a) -> [k |-> "num", n |-> -a.n, d |-> a.d]
      [] OTHER    -> [k |-> "neg", a |-> a]

Add(a, b) ==
    CASE IsNaN(a) \/ IsNaN(b) -> NaN
      [] IsInf(a) /\ IsInf(b) -> IF a.s = b.s THEN a ELSE NaN
      [] IsInf(a) -> a
      [] IsInf(b) -> b
      [] IsNum(a) /\ IsNum(b) ->
            LET g == Gcd(a.d, b.d)
            IN  Rat(a.n * (b.d \div g) + b.n * (a.d \div g), (a.d \div g) * b.d)
      [] IsZero(a) -> b
      [] IsZero(b) -> a
      [] OTHER -> [k |-> "add", a |-> a, b |-> b]

Sub(a, b) == Add(a, Neg(b))

\* the root of a rational r >= 0 that is not a square
Root(r) == [k |-> "sqrt", r |-> r]

ISqrt(i) == CHOOSE r \in 0..i : r * r <= i /\ (r + 1) * (r + 1) > i

IsSquare(i) == ISqrt(i) * ISqrt(i) = i

\* np.sqrt
Sqrt(a) ==
    CASE IsNaN(a) -> NaN
      [] IsInf(a) -> IF a.s > 0 THEN a ELSE NaN
      [] IsNum(a) ->
            IF a.n < 0 THEN NaN
            ELSE IF IsSquare(a.n) /\ IsSquare(a.d)
                 THEN Rat(ISqrt(a.n), ISqrt(a.d))
                 ELSE Root(a)
      [] OTHER -> [k |-> "sqrt", r |-> a]

\* the product of two rationals
MulNum(a, b) ==
    LET g1 == Gcd(AbsInt(a.n), b.d)
        g2 == Gcd(AbsInt(b.n), a.d)
    IN  Rat((a.n \div g1) * (b.n \div g2), (a.d \div g2) * (b.d \div g1))

Mul(a, b) ==
    CASE IsNaN(a) \/ IsNaN(b) -> NaN
      [] IsInf(a) /\ IsInf(b) -> Inf(a.s * b.s)
      [] IsInf(a) /\ IsNum(b) -> IF b.n = 0 THEN NaN ELSE Inf(a.s * Sign(b))
      [] IsNum(a) /\ IsInf(b) -> IF a.n = 0 THEN NaN ELSE Inf(b.s * Sign(a))
      [] IsInf(a) -> Inf(a.s)      \* times a positive root
      [] IsInf(b) -> Inf(b.s)
      [] IsNum(a) /\ IsNum(b) -> MulNum(a, b)
      [] IsZero(a) \/ IsZero(b) -> Zero
      [] a = One -> b
      [] b = One -> a
      [] IsNum(a) /\ a.n > 0 /\ b.k = "sqrt" /\ IsNum(b.r) ->
            Sqrt(MulNum(MulNum(a, a), b.r))    \* a * sqrt(r) = sqrt(a^2 * r)
      [] OTHER -> [k |-> "mul", a |-> a, b |-> b]

\* true division of floats: x/0 is +-inf, 0/0 and inf/inf are NaN
Div(a, b) ==
    CASE IsNaN(a) \/ IsNaN(b) -> NaN
      [] IsInf(a) /\ IsInf(b) -> NaN
      [] IsInf(b) -> Zero
      [] IsZero(b) ->
            IF IsZero(a) THEN NaN
            ELSE IF IsSym(a) THEN Inf(1) ELSE Inf(Sign(a))
      [] IsInf(a) -> IF IsNum(b) THEN Inf(a.s * Sign(b)) ELSE a
      [] IsNum(a) /\ IsNum(b) ->
            Mul(a, Rat(b.d * SignInt(b.n), AbsInt(b.n)))
      [] IsZero(a) -> Zero
      [] b = One -> a
      [] OTHER -> [k |-> "div", a |-> a, b |-> b]

Square(a) == Mul(a, a)

\* a > b as IEEE compares rationals and infinities: False when either is NaN
Gt(a, b) ==
    CASE IsNaN(a) \/ IsNaN(b) -> FALSE
      [] IsInf(a) /\ IsInf(b) -> a.s > b.s
      [] IsInf(a) -> a.s > 0
      [] IsInf(b) -> b.s < 0
      [] OTHER -> a.n * b.d > b.n * a.d

Lt(a, b) == Gt(b, a)

\* a <= b: False when either is NaN
Le(a, b) == ~IsNaN(a) /\ ~IsNaN(b) /\ ~Gt(a, b)

\* abs()
Abs(a) ==
    CASE IsNaN(a) -> NaN
      [] IsInf(a) -> Inf(1)
      [] OTHER    -> [k |-> "num", n |-> AbsInt(a.n), d |-> a.d]

\* int(): truncation toward zero of a rational
Trunc(a) == SignInt(a.n) * (AbsInt(a.n) \div a.d)

----------------------------------------------------------------------------
(* Vectors and matrices.                                                   *)

\* a function on 1..n as a sequence
Tup(f) == f \o <<>>

NRows(M) == Len(M)

NCols(M) == Len(M[1])

Col(M, j) == Tup([i \in 1..Len(M) |-> M[i][j]])

RECURSIVE SumSeq(_)
SumSeq(s) == IF s = <<>> THEN Zero ELSE Add(Head(s), SumSeq(Tail(s)))

\* the entries of s that are not NaN, in order
RECURSIVE DropNaN(_)
DropNaN(s) ==
    IF s = <<>> THEN <<>>
    ELSE IF IsNaN(Head(s)) THEN DropNaN(Tail(s))
         ELSE <<Head(s)>> \o DropNaN(Tail(s))

\* np.nansum of a 1-D sequence
NanSumSeq(s) == SumSeq(DropNaN(s))

\* np.isnan(M).any()
AnyNaN(M) == \E i \in 1..Len(M) : \E j \in 1..Len(M[i]) : IsNaN(M[i][j])

\* insertion of v into the ascending sequence s
RECURSIVE Insert(_, _)
Insert(v, s) ==
    IF s = <<>> THEN <<v>>
    ELSE IF Gt(Head(s), v) THEN <<v>> \o s
         ELSE <<Head(s)>> \o Insert(v, Tail(s))

\* np.sort of a sequence without NaN
RECURSIVE Sort(_)
Sort(s) == IF s = <<>> THEN <<>> ELSE Insert(Head(s), Sort(Tail(s)))

----------------------------------------------------------------------------
(* Results of a call.                                                      *)

None == [k |-> "none"]

Return(v) == [kind |-> "return", value |-> v]

\* an exception of class exc raised by the routine named by
Raise(exc, by) == [kind |-> "raise", exc |-> exc, by |-> by]

Returned(o) == o.kind = "return"

----------------------------------------------------------------------------
(* Column statistics.                                                      *)

\* np.mean of a 1-D sequence; the mean of nothing is NaN (0/0)
MeanSeq(s) == Div(SumSeq(s), Int2Num(Len(s)))

\* np.median of a 1-D sequence without NaN; the median of nothing is NaN
MedianSeq(s) ==
    LET n == Len(s)
        t == Sort(s)
    IN  IF n = 0 THEN NaN
        ELSE IF n % 2 = 1 THEN t[(n + 1) \div 2]
             ELSE Div(Add(t[n \div 2], t[n \div 2 + 1]), Int2Num(2))

\* np.var of a 1-D sequence
VarSeq(s) ==
    LET m == MeanSeq(s)
    IN  MeanSeq(Tup([i \in 1..Len(s) |-> Square(Abs(Sub(s[i], m)))]))

median(M) ==
    IF AnyNaN(M)
    THEN Tup([j \in 1..NCols(M) |-> MedianSeq(DropNaN(Col(M, j)))])
    ELSE Tup([j \in 1..NCols(M) |-> MedianSeq(Col(M, j))])

\* M - v and abs(M): broadcasting a length-p vector over the rows
SubRow(M, v) == Tup([i \in 1..NRows(M) |-> Tup([j \in 1..NCols(M) |-> Sub(M[i][j], v[j])])])

AbsMat(M) == Tup([i \in 1..NRows(M) |-> Tup([j \in 1..NCols(M) |-> Abs(M[i][j])])])

SquareMat(M) == Tup([i \in 1..NRows(M) |-> Tup([j \in 1..NCols(M) |-> Square(M[i][j])])])

\* the default consistency constant of mad, 0.6744897501960817, to 4 digits
mad_c == Rat(6745, 10000)

mad(M, c) ==
    LET s == median(AbsMat(SubRow(M, median(M))))
    IN  Tup([j \in 1..NCols(M) |-> Div(s[j], c)])

\* a variant of _check_trimming that also rejects t = 0.99
_check_trimming_strict(t) ==
    IF Gt(t, Rat(99, 100)) \/ t = Rat(99, 100) \/ Lt(t, Zero)
    THEN Raise("ValueError", "_check_trimming")
    ELSE Return(None)

\* _check_trimming(t): raises when (t > 0.99) or (t < 0)
_check_trimming(t) ==
    IF Gt(t, Rat(99, 100)) \/ Lt(t, Zero)
    THEN Raise("ValueError", "_check_trimming")
    ELSE Return(None)

\* scipy.stats.trim_mean(M, t, 0), the routine mean and std hand a non-zero
\* trimming fraction to: it cuts int(t * n) sorted entries from each end of
\* every column and averages the rest
trim_mean(M, t) ==
    LET nobs == NRows(M)
        lowercut == Trunc(Mul(t, Int2Num(nobs)))
        uppercut == nobs - lowercut
        kthBad(kth) == kth >= nobs \/ kth < -nobs
    IN  IF lowercut > uppercut THEN Raise("ValueError", "trim_mean")
        ELSE IF kthBad(lowercut) \/ kthBad(uppercut - 1)
             THEN Raise("ValueError", "np.partition")
             ELSE Return(Tup([j \in 1..NCols(M) |->
                            MeanSeq(SubSeq(Sort(Col(M, j)), lowercut + 1, uppercut))]))

\* the branch trimming == 0 of mean
ColMean(M) ==
    IF AnyNaN(M)
    THEN Tup([j \in 1..NCols(M) |-> MeanSeq(DropNaN(Col(M, j)))])
    ELSE Tup([j \in 1..NCols(M) |-> MeanSeq(Col(M, j))])

mean(M, t) == IF t = Zero THEN Return(ColMean(M)) ELSE trim_mean(M, t)

\* the routines mean calls, in order
mean_calls(M, t) ==
    IF t = Zero
    THEN IF AnyNaN(M) THEN <<"np.nanmean">> ELSE <<"np.mean">>
    ELSE <<"sps.trim_mean">>

std(M, t) ==
    IF t = Zero
    THEN IF AnyNaN(M)
         THEN Return(Tup([j \in 1..NCols(M) |-> Sqrt(VarSeq(DropNaN(Col(M, j))))]))
         ELSE Return(Tup([j \in 1..NCols(M) |-> Sqrt(VarSeq(Col(M, j)))]))
    ELSE LET inner == trim_mean(M, t)
         IN  IF ~Returned(inner) THEN inner
             ELSE LET var == trim_mean(SquareMat(SubRow(M, inner.value)), t)
                  IN  IF ~Returned(var) THEN var
                      ELSE Return(Tup([j \in 1..NCols(M) |-> Sqrt(var.value[j])]))

\* the routines std calls, in order
std_calls(M, t) ==
    IF t = Zero
    THEN IF AnyNaN(M) THEN <<"np.nanvar">> ELSE <<"np.var">>
    ELSE IF Returned(trim_mean(M, t))
         THEN <<"sps.trim_mean", "sps.trim_mean">>
         ELSE <<"sps.trim_mean">>

----------------------------------------------------------------------------
(* Arrays by reference, _handle_zeros_in_scale and scale_data.             *)

\* what a caller can hand over as a scale: a Python or numpy scalar, an
\* ndarray (by address in the heap), or something that is neither (a list)
Scalar(v) == [t |-> "scalar", v |-> v]

Ref(a) == [t |-> "ndarray", addr |-> a]

List(items) == [t |-> "list", items |-> items]

NoneRet == [t |-> "None"]

\* scale[scale == 0.0] = 1.0 on the contents of an array
ZerosToOne(arr) == Tup([i \in 1..Len(arr) |-> IF IsZero(arr[i]) THEN One ELSE arr[i]])

\* a variant that ignores copy and always writes into the array given
_handle_zeros_in_scale_inplace(h, scale, copy) ==
    CASE scale.t = "scalar" ->
            [heap |-> h, ret |-> Scalar(IF IsZero(scale.v) THEN One ELSE scale.v)]
      [] scale.t = "ndarray" ->
            [heap |-> [h EXCEPT ![scale.addr] = ZerosToOne(@)], ret |-> scale]
      [] OTHER -> [heap |-> h, ret |-> NoneRet]

\* _handle_zeros_in_scale(scale, copy) on the heap h: the heap it leaves and
\* the value it returns
_handle_zeros_in_scale(h, scale, copy) ==
    CASE scale.t = "scalar" ->
            [heap |-> h, ret |-> Scalar(IF IsZero(scale.v) THEN One ELSE scale.v)]
      [] scale.t = "ndarray" ->
            LET h1 == IF copy THEN Append(h, h[scale.addr]) ELSE h
                a  == IF copy THEN Len(h) + 1 ELSE scale.addr
            IN  [heap |-> [h1 EXCEPT ![a] = ZerosToOne(@)], ret |-> Ref(a)]
      [] OTHER -> [heap |-> h, ret |-> NoneRet]

\* a division the code performs: the statement and the divisors it uses
Division(at, by) == [at |-> at, by |-> by]

\* scale_data(M, m, s) on the heap h: the heap it leaves, its result, the
\* local s after s = _handle_zeros_in_scale(s), and the divisions it made
scale_data(h, M, m, s) ==
    LET n  == NRows(M)
        p  == NCols(M)
        hz == _handle_zeros_in_scale(h, s, TRUE)
        s1 == hz.ret
    IN  IF s1.t = "None"
        THEN [heap |-> hz.heap, s |-> s1, divs |-> <<>>,
              outcome |-> Raise("TypeError", "scale_data")]
        ELSE LET by == IF s1.t = "scalar" THEN Tup([j \in 1..p |-> s1.v])
                       ELSE hz.heap[s1.addr]
             IN  [heap |-> hz.heap, s |-> s1,
                  divs |-> <<Division("scale_data: Xm / s", by)>>,
                  outcome |-> Return(Tup([i \in 1..n |-> Tup([j \in 1..p |->
                                        Div(Sub(M[i][j], m[j]), by[j])])]))]

----------------------------------------------------------------------------
(* scaleTau2.                                                              *)

\* the defaults of c1 and c2
c1_default == Rat(9, 2)

c2_default == 3

\* Es2(c2) for c2 = 3: Erho(3 * norm.ppf(3/4)) = 0.9247, to 3 digits
Es2_c2 == Rat(37, 40)

\* all entries of a matrix, row after row
RECURSIVE Flat(_)
Flat(M) == IF M = <<>> THEN <<>> ELSE Head(M) \o Flat(Tail(M))

\* summ: np.nansum if the data hold a NaN, else np.sum; without an axis, so
\* over all the entries of a matrix
summ(nan, M) == IF nan THEN NanSumSeq(Flat(M)) ELSE SumSeq(Flat(M))

\* nEs2
tau_nEs2(n, consistency) ==
    CASE consistency = "False"        -> Int2Num(n)
      [] consistency = "finiteSample" -> Mul(Int2Num(n - 2), Es2_c2)
      [] OTHER                        -> Mul(Int2Num(n), Es2_c2)

\* scaleTau2(x0, c1, c2 = 3, consistency): the estimate, the locals the
\* claims speak of, and the divisions made
scaleTau2(M, c1, consistency) ==
    LET n      == NRows(M)
        p      == NCols(M)
        I      == 1..n
        J      == 1..p
        nan    == AnyNaN(M)
        medx   == median(M)
        xc0    == AbsMat(SubRow(M, medx))
        sigma0 == median(xc0)
        den    == Tup([j \in J |-> Mul(sigma0[j], c1)])
        xc     == Tup([i \in I |-> Tup([j \in J |-> Div(xc0[i][j], den[j])])])
        w1     == Tup([i \in I |-> Tup([j \in J |-> Sub(One, Square(xc[i][j]))])])
        w      == Tup([i \in I |-> Tup([j \in J |->
                      Square(Div(Add(Abs(w1[i][j]), w1[i][j]), Int2Num(2)))])])
        xw     == Tup([i \in I |-> Tup([j \in J |-> Mul(M[i][j], w[i][j])])])
        mu     == IF Gt(c1, Zero)
                  THEN Tup([j \in J |-> Div(summ(nan, xw), summ(nan, w))])
                  ELSE medx
        x      == Tup([i \in I |-> Tup([j \in J |-> Div(Sub(M[i][j], mu[j]), sigma0[j])])])
        rho0   == SquareMat(x)
        cap    == Int2Num(c2_default * c2_default)
        rows   == {i \in I : \E j \in J : Gt(rho0[i][j], cap)}
        rho    == Tup([i \in I |-> Tup([j \in J |-> IF i \in rows THEN cap ELSE rho0[i][j]])])
        nEs2   == tau_nEs2(n, consistency)
    IN  [value  |-> Tup([j \in J |-> Mul(sigma0[j], Sqrt(Div(summ(nan, rho), nEs2)))]),
         mu     |-> mu,
         rho    |-> rho,
         sumrho |-> summ(nan, rho),
         divs   |-> (IF Gt(c1, Zero)
                     THEN <<Division("scaleTau2: xc /= sigma0 * c1", den),
                            Division("scaleTau2: summ(x * w) / summ(w)",
                                     <<summ(nan, w)>>)>>
                     ELSE <<>>)
                    \o <<Division("scaleTau2: x /= sigma0", sigma0),
                         Division("scaleTau2: summ(rho) / nEs2", <<nEs2>>)>>]

----------------------------------------------------------------------------
(* Inputs.                                                                 *)

\* the n x p matrices over the values V, for n in 1..maxRows
Matrices(maxRows, P, V) ==
    UNION {[1..n -> [1..p -> V]] : n \in 1..maxRows, p \in P}

Ints(lo, hi) == {Int2Num(v) : v \in lo..hi}

----------------------------------------------------------------------------
(* Trimming fractions: _check_trimming, mean and std applied to inputs.    *)

TrimMaxRows == 3

TrimMaxVal == 1

TrimCols == {1, 2}

\* fractions below, at, inside and above the ends of the permitted range
TrimSet ==
    {Rat(-1, 10), Rat(-1, 1000), Zero, Rat(1, 1000), Rat(1, 2), Rat(3, 5),
     Rat(98, 100), Rat(989, 1000), Rat(99, 100), Rat(991, 1000),
     Rat(995, 1000), One, Rat(11, 10)}

InitTrim ==
    /\ pc = "start"
    /\ op = "none"
    /\ X \in Matrices(TrimMaxRows, TrimCols, Ints(0, TrimMaxVal))
    /\ trimming \in TrimSet
    /\ outcome = None
    /\ events = <<>>
    /\ kwargs = <<>> /\ heap = <<>> /\ lts = <<>> /\ vshift = <<>>
    /\ maxit = 0 /\ tol = Zero /\ loc = <<>> /\ scl = None /\ s_local = None

CallCheckTrimming ==
    /\ pc = "start"
    /\ op' = "_check_trimming"
    /\ outcome' = _check_trimming(trimming)
    /\ events' = <<>>
    /\ pc' = "done"
    /\ UNCHANGED <<X, trimming, kwargs, heap, lts, vshift, maxit, tol, loc, scl, s_local>>

CallMean ==
    /\ pc = "start"
    /\ op' = "mean"
    /\ outcome' = mean(X, trimming)
    /\ events' = mean_calls(X, trimming)
    /\ pc' = "done"
    /\ UNCHANGED <<X, trimming, kwargs, heap, lts, vshift, maxit, tol, loc, scl, s_local>>

CallStd ==
    /\ pc = "start"
    /\ op' = "std"
    /\ outcome' = std(X, trimming)
    /\ events' = std_calls(X, trimming)
    /\ pc' = "done"
    /\ UNCHANGED <<X, trimming, kwargs, heap, lts, vshift, maxit, tol, loc, scl, s_local>>

NextTrim == CallCheckTrimming \/ CallMean \/ CallStd

SpecTrim == InitTrim /\ [][NextTrim]_vars

\* the permitted range as the claims state it, [0, 0.99), and as the code
\* tests it, [0, 0.99]
InHalfOpenRange(t) == Le(Zero, t) /\ Lt(t, Rat(99, 100))

InClosedRange(t) == Le(Zero, t) /\ Le(t, Rat(99, 100))

\* C1 as stated: _check_trimming(t) raises exactly when t is outside [0, 0.99)
C1_RaisesOutsideHalfOpen ==
    (pc = "done" /\ op = "_check_trimming")
        => (outcome.kind = "raise" <=> ~InHalfOpenRange(trimming))

\* C1 amended: _check_trimming(t) raises a ValueError exactly when t < 0 or
\* t > 0.99, that is when t is outside the closed interval [0, 0.99]; it
\* returns for t = 0.99 and raises for t = 1.0
C1_RaisesOutsideClosed ==
    (pc = "done" /\ op = "_check_trimming")
        => /\ outcome.kind = "raise" <=> ~InClosedRange(trimming)
           /\ outcome.kind = "raise" => outcome.exc = "ValueError"
           /\ outcome.kind = "return" => outcome.value = None

\* _check_trimming has returned silently for t = 0.99
C1_Witness ==
    /\ pc = "done" /\ op = "_check_trimming"
    /\ trimming = Rat(99, 100)
    /\ outcome = Return(None)

\* C2: mean and std raise the validation failure of _check_trimming at once,
\* before any routine of the statistic is called, whenever the trimming
\* fraction is out of range, and return no numeric result then
C2_ValidatesBeforeComputing ==
    (pc = "done" /\ op \in {"mean", "std"} /\ ~InHalfOpenRange(trimming))
        => /\ outcome.kind = "raise"
           /\ outcome.by = "_check_trimming"
           /\ events = <<>>

----------------------------------------------------------------------------
(* l1median.                                                               *)

\* the local variable x0 of l1median after its first statement: bound to
\* the column median when the keyword x0 is absent, and left unbound when
\* the caller passes x0
l1median_x0(M, kw) ==
    IF "x0" \notin DOMAIN kw
    THEN [bound |-> TRUE, v |-> median(M)]
    ELSE [bound |-> FALSE]

\* the invocations of the solver (spo.minimize, through _l1median) that
\* l1median(M, **kw) makes, each with the initial point it is given
l1median_calls(M, kw) ==
    LET x0 == l1median_x0(M, kw)
    IN  IF NCols(M) < 2 \/ ~x0.bound THEN <<>>
        ELSE <<[fn |-> "spo.minimize", x0 |-> x0.v]>>

\* l1median(M, **kw), where sol is the point the solver answers with
l1median(M, kw, sol) ==
    LET x0 == l1median_x0(M, kw)
        p == NCols(M)
    IN  IF p < 2 THEN Return(median(M))
        ELSE IF ~x0.bound THEN Raise("UnboundLocalError", "l1median")
             ELSE Return(sol)

\* points the solver may answer with: it is scipy's, so any of a few
\* candidates (the seed itself, the centroid, a data row)
SolverPoints(M) == {median(M), ColMean(M), M[1]}

----------------------------------------------------------------------------
(* kstepLTS.                                                               *)

\* np.sort of a 1-D sequence: ascending, NaN last
np_sort(s) ==
    Sort(DropNaN(s)) \o Tup([i \in 1..(Len(s) - Len(DropNaN(s))) |-> NaN])

\* Python's max() over a sequence: keeps the first entry unless a later one
\* compares greater
RECURSIVE MaxFrom(_, _)
MaxFrom(m, s) ==
    IF s = <<>> THEN m
    ELSE MaxFrom(IF Gt(Head(s), m) THEN Head(s) ELSE m, Tail(s))

BuiltinMax(s) == MaxFrom(Head(s), Tail(s))

\* max(abs(a - b)) of two vectors
MaxAbsChange(a, b) == BuiltinMax(Tup([j \in 1..Len(a) |-> Abs(Sub(a[j], b[j]))]))

\* a variant that takes the distances to the origin instead of to m
lts_dists_untranslated(M, m) ==
    Tup([i \in 1..NRows(M) |-> SumSeq(Tup([j \in 1..NCols(M) |-> Square(M[i][j])]))])

\* dists: squared distance of every row of M to m
lts_dists(M, m) ==
    LET D == SubRow(M, m)
    IN  IF AnyNaN(M)
        THEN Tup([i \in 1..NRows(M) |-> NanSumSeq(Tup([j \in 1..NCols(M) |-> Square(D[i][j])]))])
        ELSE Tup([i \in 1..NRows(M) |-> SumSeq(Tup([j \in 1..NCols(M) |-> Square(D[i][j])]))])

\* cutdist: the entry of the sorted distances at index int(floor((n+1)/2)) - 1
lts_cutdist(d) == np_sort(d)[((Len(d) + 1) \div 2 - 1) + 1]

\* the ascending sequence of the indices in 1..n that satisfy P
RECURSIVE Where(_, _, _)
Where(P(_), i, n) ==
    IF i > n THEN <<>>
    ELSE (IF P(i) THEN <<i>> ELSE <<>>) \o Where(P, i + 1, n)

\* a variant that keeps only the rows strictly below the cut distance
lts_hsubset_strict(d, c) ==
    LET P(i) == Lt(d[i], c) IN Where(P, 1, Len(d))

\* hsubset: np.where(dists <= cutdist)[0]
lts_hsubset(d, c) ==
    LET P(i) == Le(d[i], c) IN Where(P, 1, Len(d))

\* mean(X[hsubset, :]) reshaped to (p,)
lts_m2(M, h) ==
    IF h = <<>> THEN Tup([j \in 1..NCols(M) |-> NaN])
    ELSE mean(Tup([i \in 1..Len(h) |-> M[h[i]]]), Zero).value

\* a variant that also counts a change equal to tol as unconverged
lts_unconverged_strict(m1, m2, t) ==
    Gt(MaxAbsChange(m1, m2), t) \/ MaxAbsChange(m1, m2) = t

\* unconverged = max(abs(m1 - m2)) > tol
lts_unconverged(m1, m2, t) == Gt(MaxAbsChange(m1, m2), t)

\* the locals of a run after m1 = l1median(X), m2 = deepcopy(m1),
\* iteration = 0, unconverged = True; seed and m0 (m1 as the last pass
\* found it) are kept for reference
lts_start(M, seed) ==
    [X |-> M, seed |-> seed, m0 |-> seed, m1 |-> seed, m2 |-> seed,
     iteration |-> 0, unconverged |-> TRUE,
     dists |-> <<>>, cutdist |-> None, hsubset |-> <<>>]

\* a variant that allows one pass more than maxit
lts_loop_through_maxit(r) == r.unconverged /\ r.iteration <= maxit

\* the condition of the while loop
lts_loop(r) == r.unconverged /\ r.iteration < maxit

\* one pass of the loop body
lts_pass(r) ==
    LET d  == lts_dists(r.X, r.m1)
        c  == lts_cutdist(d)
        h  == lts_hsubset(d, c)
        m2 == lts_m2(r.X, h)
    IN  [r EXCEPT !.dists = d, !.cutdist = c, !.hsubset = h, !.m2 = m2,
                  !.unconverged = lts_unconverged(r.m1, m2, tol),
                  !.iteration = r.iteration + 1,
                  !.m0 = r.m1, !.m1 = m2]


LtsMaxRows == 4

LtsMaxIt == 2

LtsCols == {1, 2}

\* the entries tried: 0 and 1, and an outlying 3 in single-column data
LtsVals(p) == IF p = 1 THEN {Zero, One, Int2Num(3)} ELSE {Zero, One}

LtsTols == {Zero, Rat(1, 2), One}

\* the translations tried: the first p entries of two fixed vectors
VShifts(p) ==
    {Tup([j \in 1..p |-> <<Int2Num(1), Int2Num(-2)>>[j]]),
     Tup([j \in 1..p |-> <<Rat(1, 2), Int2Num(3)>>[j]])}

\* M + v, v broadcast over the rows
AddRow(M, v) == Tup([i \in 1..NRows(M) |-> Tup([j \in 1..NCols(M) |-> Add(M[i][j], v[j])])])

AddVec(a, v) == Tup([j \in 1..Len(a) |-> Add(a[j], v[j])])

\* a before b in lexicographic order, or equal
RECURSIVE LexLe(_, _)
LexLe(a, b) ==
    IF a = <<>> THEN TRUE
    ELSE IF Head(a) = Head(b) THEN LexLe(Tail(a), Tail(b))
         ELSE Lt(Head(a), Head(b))

\* the data sets tried, each once: kstepLTS sees the order of the rows only
\* in the row indices of hsubset, so the rows are listed in ascending order
LtsMatrices ==
    {M \in UNION {Matrices(LtsMaxRows, {p}, LtsVals(p)) : p \in LtsCols} :
        \A i \in 1..(NRows(M) - 1) : LexLe(M[i], M[i + 1])}

Runs == {"a", "b"}

\* two calls side by side: run a is kstepLTS(X, maxit, tol), run b is
\* kstepLTS(X + vshift, maxit, tol)
InitLTS ==
    /\ pc = "start"
    /\ op = "none"
    /\ X \in LtsMatrices
    /\ vshift \in VShifts(NCols(X))
    /\ maxit \in 0..LtsMaxIt
    /\ tol \in LtsTols
    /\ lts = <<>>
    /\ outcome = None
    /\ events = <<>>
    /\ trimming = Zero /\ kwargs = <<>> /\ heap = <<>> /\ loc = <<>> /\ scl = None /\ s_local = None

\* n, p = X.shape; m1 = l1median(X); m2 = deepcopy(m1); iteration = 0;
\* unconverged = True.  For p >= 2 each run's seed is what the solver answers.
SeedLTS ==
    /\ pc = "start"
    /\ \E sa \in SolverPoints(X) : \E sb \in SolverPoints(AddRow(X, vshift)) :
          lts' = [r \in Runs |->
                    IF r = "a"
                    THEN lts_start(X, l1median(X, <<>>, sa).value)
                    ELSE lts_start(AddRow(X, vshift),
                                   l1median(AddRow(X, vshift), <<>>, sb).value)]
    /\ op' = "kstepLTS"
    /\ pc' = "loop"
    /\ UNCHANGED <<X, trimming, outcome, events, kwargs, heap, vshift, maxit,
                   tol, loc, scl, s_local>>

\* one pass of the while loop, in every run whose loop condition holds
PassLTS ==
    /\ pc = "loop"
    /\ \E r \in Runs : lts_loop(lts[r])
    /\ lts' = [r \in Runs |-> IF lts_loop(lts[r]) THEN lts_pass(lts[r]) ELSE lts[r]]
    /\ events' = Append(events, {r \in Runs : lts_loop(lts[r])})
    /\ UNCHANGED <<pc, op, X, trimming, outcome, kwargs, heap, vshift, maxit,
                   tol, loc, scl, s_local>>

\* return m2, once the loop condition is false
ReturnLTS ==
    /\ pc = "loop"
    /\ \A r \in Runs : ~lts_loop(lts[r])
    /\ outcome' = Return([r \in Runs |-> lts[r].m2])
    /\ pc' = "done"
    /\ UNCHANGED <<op, X, trimming, events, kwargs, heap, lts, vshift, maxit,
                   tol, loc, scl, s_local>>

NextLTS == SeedLTS \/ PassLTS \/ ReturnLTS

SpecLTS == InitLTS /\ [][NextLTS]_vars

Seeded == pc \in {"loop", "done"}

\* the number of passes run r has made, by the log
PassesOf(r) == Cardinality({i \in 1..Len(events) : r \in events[i]})

\* C4: with a translation-equivariant seed and maxit >= 1,
\* kstepLTS(X + v) = kstepLTS(X) + v: after every pass the run on X + v has
\* selected the same h-subset rows, made the same number of passes and holds
\* m2 + v, and it returns the other run's value plus v
C4_TranslationEquivariant ==
    (Seeded /\ maxit >= 1 /\ lts["b"].seed = AddVec(lts["a"].seed, vshift))
        => /\ lts["b"].iteration = lts["a"].iteration
           /\ \A i \in 1..Len(events) : events[i] = Runs
           /\ lts["b"].hsubset = lts["a"].hsubset
           /\ lts["b"].unconverged = lts["a"].unconverged
           /\ lts["b"].m2 = AddVec(lts["a"].m2, vshift)
           /\ pc = "done" => outcome.value["b"] = AddVec(outcome.value["a"], vshift)

\* both runs returned after two passes on a 2-column matrix, the second
\* pass on a proper subset of the rows, from equivariant solver seeds
C4_Witness ==
    /\ pc = "done" /\ maxit >= 1
    /\ NCols(X) >= 2
    /\ lts["b"].seed = AddVec(lts["a"].seed, vshift)
    /\ lts["a"].iteration = 2
    /\ Len(lts["a"].hsubset) < NRows(X)
    /\ lts["a"].m2 # lts["a"].seed
    /\ outcome.value["b"] = AddVec(outcome.value["a"], vshift)

\* C7: the loop ends after at most maxit passes: iteration starts at 0,
\* grows by exactly 1 per pass and never exceeds maxit; the loop is left
\* exactly when unconverged is False or iteration = maxit; the value
\* returned is the m2 of the last pass, the seed if there was none, with
\* nothing that tells which of the two ended the loop
C7_Inv ==
    Seeded =>
        \A r \in Runs :
            /\ lts[r].iteration \in 0..maxit
            /\ lts[r].iteration = PassesOf(r)
            /\ lts[r].iteration = 0 => lts[r].m2 = lts[r].seed /\ lts[r].unconverged
            /\ lts[r].iteration > 0 => lts[r].m2 = lts_m2(lts[r].X, lts[r].hsubset)
            /\ pc = "done" =>
                  /\ ~lts[r].unconverged \/ lts[r].iteration = maxit
                  /\ outcome = Return([q \in Runs |-> lts[q].m2])

LoopLeft(r) == ~lts[r].unconverged \/ lts[r].iteration = maxit

\* the passes the runs may still make
PassesLeft(l) == (maxit - l["a"].iteration) + (maxit - l["b"].iteration)

\* a step of the loop is a pass of every run that has not left the loop,
\* which uses up one of the passes left, or it is the return
C7_Step ==
    pc = "loop" =>
        /\ \A r \in Runs :
              /\ ~LoopLeft(r) => /\ lts'[r].iteration = lts[r].iteration + 1
                                 /\ pc' = "loop"
              /\ LoopLeft(r) => lts'[r] = lts[r]
        /\ (\A r \in Runs : LoopLeft(r)) => pc' = "done"
        /\ pc' = "done" \/ PassesLeft(lts') < PassesLeft(lts)

C7_TerminatesWithinMaxit == []C7_Inv /\ [][C7_Step]_vars

\* a run made every pass maxit allows and returned at the cap, still
\* unconverged, with the m2 of its last pass
C7_Witness ==
    /\ pc = "done"
    /\ lts["a"].iteration = maxit /\ maxit = LtsMaxIt
    /\ lts["a"].unconverged
    /\ outcome.value["a"] = lts["a"].m2

MaxChange(r) == MaxAbsChange(lts[r].m0, lts[r].m2)

\* C8 as stated: a pass is converged exactly when the maximum absolute
\* change between m1 and m2 is strictly less than tol
C8_ConvergedIffBelowTol ==
    Seeded =>
        \A r \in Runs :
            lts[r].iteration >= 1 => (~lts[r].unconverged <=> Lt(MaxChange(r), tol))

\* C8 amended: a pass is converged exactly when the maximum absolute change
\* between m1 and m2 is at most tol (not greater than tol); a pass whose
\* change equals tol exactly is converged and no further pass is made, and
\* a pass whose change is greater than tol is followed by another one if
\* iteration < maxit
C8_Inv ==
    Seeded =>
        \A r \in Runs :
            lts[r].iteration >= 1 =>
                /\ ~lts[r].unconverged <=> Le(MaxChange(r), tol)
                /\ (pc = "done" /\ Gt(MaxChange(r), tol)) => lts[r].iteration = maxit

C8_Step ==
    Seeded =>
        \A r \in Runs :
            (lts[r].iteration >= 1 /\ Le(MaxChange(r), tol)) => lts'[r] = lts[r]

C8_ConvergedIffWithinTol == []C8_Inv /\ [][C8_Step]_vars

\* a first pass changed the estimate by exactly tol > 0, with passes left,
\* and the call returned without a second one
C8_Witness ==
    /\ pc = "done"
    /\ lts["a"].iteration = 1 /\ maxit > 1
    /\ Gt(tol, Zero)
    /\ MaxChange("a") = tol
    /\ ~lts["a"].unconverged

Range(s) == {s[i] : i \in 1..Len(s)}

\* C9: in every pass the cut distance is the value at rank floor((n+1)/2)
\* of the ascending squared distances to m1, and the h-subset is exactly the
\* rows at distance <= the cut distance: it is non-empty, has at least
\* floor((n+1)/2) rows, more only when rows tie at the cut distance, and
\* every excluded row is strictly farther than every included row
C9_HSubset ==
    Seeded =>
        \A r \in Runs :
            lts[r].iteration >= 1 =>
                LET M == lts[r].X
                    n == NRows(M)
                    k == (n + 1) \div 2
                    d == lts[r].dists
                    c == lts[r].cutdist
                    h == Range(lts[r].hsubset)
                IN  /\ \A i \in 1..n :
                          d[i] = SumSeq(Tup([j \in 1..NCols(M) |->
                                           Square(Sub(M[i][j], lts[r].m0[j]))]))
                    /\ \E i \in 1..n : d[i] = c
                    /\ Cardinality({i \in 1..n : Lt(d[i], c)}) < k
                    /\ Cardinality({i \in 1..n : Le(d[i], c)}) >= k
                    /\ h = {i \in 1..n : Le(d[i], c)}
                    /\ Len(lts[r].hsubset) = Cardinality(h)
                    /\ h # {}
                    /\ Cardinality(h) >= k
                    /\ Cardinality(h) > k
                          => Cardinality({i \in 1..n : d[i] = c}) >= 2
                    /\ \A i \in (1..n) \ h : \A j \in h : Gt(d[i], d[j])

\* a pass kept more than floor((n+1)/2) rows because of a tie at the cut
\* distance, and excluded a row
C9_Witness ==
    /\ Seeded
    /\ lts["a"].iteration >= 1
    /\ Len(lts["a"].hsubset) > (NRows(X) + 1) \div 2
    /\ Len(lts["a"].hsubset) < NRows(X)

----------------------------------------------------------------------------
(* Scale estimate, then scale_data: s = std(X) | mad(X) | scaleTau2(X),    *)
(* Xs = scale_data(X, m, s).                                               *)

TauMaxRows == 3

TauMaxVal == 2

TauCols == {1, 2}

\* the caller's array s is the first object of the heap
InitTau ==
    /\ pc = "start"
    /\ op = "none"
    /\ X \in Matrices(TauMaxRows, TauCols, Ints(0, TauMaxVal))
    /\ kwargs \in [c1 : {c1_default, Zero},
                   consistency : {"True", "False", "finiteSample"}]
    /\ outcome = None
    /\ events = <<>>
    /\ heap = <<>>
    /\ scl = None
    /\ loc = <<>>
    /\ trimming = Zero /\ lts = <<>> /\ vshift = <<>> /\ maxit = 0 /\ tol = Zero
    /\ s_local = None

DefaultArgs == kwargs.c1 = c1_default /\ kwargs.consistency = "True"

\* s = std(X)
ScaleStd ==
    /\ pc = "start" /\ DefaultArgs
    /\ op' = "std"
    /\ heap' = <<std(X, Zero).value>>
    /\ scl' = Ref(1)
    /\ events' = <<Division("np.var: / n", <<Int2Num(NRows(X))>>)>>
    /\ pc' = "scaled"
    /\ UNCHANGED <<X, trimming, outcome, kwargs, lts, vshift, maxit, tol, loc, s_local>>

\* s = mad(X)
ScaleMad ==
    /\ pc = "start" /\ DefaultArgs
    /\ op' = "mad"
    /\ heap' = <<mad(X, mad_c)>>
    /\ scl' = Ref(1)
    /\ events' = <<Division("mad: / c", <<mad_c>>)>>
    /\ pc' = "scaled"
    /\ UNCHANGED <<X, trimming, outcome, kwargs, lts, vshift, maxit, tol, loc, s_local>>

\* s = scaleTau2(X, c1 = ..., consistency = ...)
ScaleTau2 ==
    /\ pc = "start"
    /\ op' = "scaleTau2"
    /\ heap' = <<scaleTau2(X, kwargs.c1, kwargs.consistency).value>>
    /\ scl' = Ref(1)
    /\ events' = scaleTau2(X, kwargs.c1, kwargs.consistency).divs
    /\ pc' = "scaled"
    /\ UNCHANGED <<X, trimming, outcome, kwargs, lts, vshift, maxit, tol, loc, s_local>>

\* Xs = scale_data(X, m, s), m a location estimate of X
ScaleData ==
    /\ pc = "scaled"
    /\ \E m \in {median(X), ColMean(X)} :
          /\ loc' = m
          /\ heap' = scale_data(heap, X, m, scl).heap
          /\ outcome' = scale_data(heap, X, m, scl).outcome
          /\ events' = events \o scale_data(heap, X, m, scl).divs
          /\ s_local' = scale_data(heap, X, m, scl).s
    /\ pc' = "done"
    /\ UNCHANGED <<op, X, trimming, kwargs, lts, vshift, maxit, tol, scl>>

NextTau == ScaleStd \/ ScaleMad \/ ScaleTau2 \/ ScaleData

SpecTau == InitTau /\ [][NextTau]_vars

ConstantColumn(M, j) == \A i \in 1..NRows(M) : M[i][j] = M[1][j]

\* a division by zero was made
DividedByZero == \E e \in 1..Len(events) : \E i \in 1..Len(events[e].by) :
                    IsZero(events[e].by[i])

\* C3: for a matrix with a constant column, s = std(X) | mad(X) |
\* scaleTau2(X) followed by scale_data(X, m, s) divides by zero nowhere,
\* and scale_data divides the constant column by 1.0
C3_ConstantColumnDividedByOne ==
    (pc = "done" /\ DefaultArgs)
        => \A j \in 1..NCols(X) :
              ConstantColumn(X, j)
                  => /\ ~DividedByZero
                     /\ events[Len(events)].by[j] = One

\* C6: for p >= 2 the j-th entry of scaleTau2(x) is scaleTau2 of column j
\* alone: the centre mu, the capped squares and their sum for column j
\* depend on column j only (stated for the default c1, c2 and consistency
\* and for data whose columns all have a non-zero MAD, so that every
\* quantity is finite)
C6_PerColumn ==
    (pc = "scaled" /\ op = "scaleTau2" /\ DefaultArgs /\ NCols(X) >= 2
        /\ \A j \in 1..NCols(X) : ~IsZero(mad(X, mad_c)[j]))
        => \A j \in 1..NCols(X) :
              LET xj   == Tup([i \in 1..NRows(X) |-> <<X[i][j]>>])
                  all  == scaleTau2(X, kwargs.c1, kwargs.consistency)
                  solo == scaleTau2(xj, kwargs.c1, kwargs.consistency)
              IN  /\ heap[scl.addr][j] = solo.value[1]
                  /\ all.mu[j] = solo.mu[1]
                  /\ \A i \in 1..NRows(X) : all.rho[i][j] = solo.rho[i][1]

----------------------------------------------------------------------------
(* l1median(X, **kwargs) applied to inputs.                                *)

L1MaxRows == 3

L1Cols == {1, 2}

\* the keyword arguments tried: none, a tolerance only, a starting point
L1Kwargs(M) ==
    {<<>>, [tol |-> Rat(1, 100)], [x0 |-> M[1]], [x0 |-> ColMean(M)],
     [x0 |-> M[1], tol |-> Rat(1, 100)]}

InitL1 ==
    /\ pc = "start"
    /\ op = "none"
    /\ X \in Matrices(L1MaxRows, L1Cols, Ints(0, 1))
    /\ kwargs \in L1Kwargs(X)
    /\ outcome = None
    /\ events = <<>>
    /\ trimming = Zero /\ heap = <<>> /\ lts = <<>> /\ vshift = <<>>
    /\ maxit = 0 /\ tol = Zero /\ loc = <<>> /\ scl = None /\ s_local = None

CallL1Median ==
    /\ pc = "start"
    /\ op' = "l1median"
    /\ \E sol \in SolverPoints(X) : outcome' = l1median(X, kwargs, sol)
    /\ events' = l1median_calls(X, kwargs)
    /\ pc' = "done"
    /\ UNCHANGED <<X, trimming, kwargs, heap, lts, vshift, maxit, tol, loc, scl, s_local>>

NextL1 == CallL1Median

SpecL1 == InitL1 /\ [][NextL1]_vars

\* C5: l1median takes an optional starting point x0: for p >= 2 the solver
\* is invoked exactly once, with the caller's x0 when one is given and with
\* the column median otherwise, and l1median returns the solver's point; the
\* call does not fail before the solver is invoked
C5_OptionalStartingPoint ==
    (pc = "done" /\ op = "l1median" /\ NCols(X) >= 2)
        => /\ outcome.kind = "return"
           /\ Len(events) = 1
           /\ events[1].x0 = IF "x0" \in DOMAIN kwargs THEN kwargs.x0 ELSE median(X)

----------------------------------------------------------------------------
(* The L1-median gradient.                                                 *)

\* _euclidnorm
_euclidnorm(x) ==
    LET sq == Tup([j \in 1..Len(x) |-> Square(x[j])])
    IN  IF \E j \in 1..Len(x) : IsNaN(x[j]) THEN Sqrt(NanSumSeq(sq))
        ELSE Sqrt(SumSeq(sq))

\* _l1m_jacobian(a, X), X the array at xaddr of the heap h: the heap it
\* leaves (with dX, the array dists as np.apply_along_axis made it, and
\* what _handle_zeros_in_scale made of it), the gradient, and the
\* addresses of dists before and after dists = _handle_zeros_in_scale(dists)
_l1m_jacobian(h, a, xaddr) ==
    LET M     == h[xaddr]
        n     == NRows(M)
        p     == NCols(M)
        dX    == SubRow(M, a)
        dists == Tup([i \in 1..n |-> _euclidnorm(dX[i])])
        h1    == h \o <<dX, dists>>
        hz    == _handle_zeros_in_scale(h1, Ref(Len(h) + 2), TRUE)
        d1    == hz.heap[hz.ret.addr]
        dX1   == Tup([i \in 1..n |-> Tup([j \in 1..p |-> Div(dX[i][j], d1[i])])])
    IN  [heap  |-> [hz.heap EXCEPT ![Len(h) + 1] = dX1],
         given |-> Len(h) + 2,
         dists |-> hz.ret.addr,
         ret   |-> IF AnyNaN(M)
                   THEN Tup([j \in 1..p |-> Neg(NanSumSeq(Col(dX1, j)))])
                   ELSE Tup([j \in 1..p |-> Neg(SumSeq(Col(dX1, j)))])]

----------------------------------------------------------------------------
(* _handle_zeros_in_scale and its two callers applied to the caller's      *)
(* arrays.                                                                 *)

HeapMaxRows == 2

HeapMaxVal == 2

HeapCols == {1, 2}

\* entries of a scale: 0, positive values, NaN
HeapScaleVals == Ints(0, HeapMaxVal) \cup {NaN}

\* the heap holds X first and then the caller's scale, if that is an array;
\* kwargs holds the scale as the caller passes it, and copy
InitHeap ==
    /\ pc = "start"
    /\ op = "none"
    /\ X \in Matrices(HeapMaxRows, HeapCols, Ints(0, 1))
    /\ \E arr \in [1..NCols(X) -> HeapScaleVals] :
       \E kind \in {"ndarray", "list"} \cup (IF NCols(X) = 1 THEN {"scalar"} ELSE {}) :
          /\ heap = IF kind = "ndarray" THEN <<X, arr>> ELSE <<X>>
          /\ scl = CASE kind = "ndarray" -> Ref(2)
                     [] kind = "scalar"  -> Scalar(arr[1])
                     [] OTHER            -> List(<<>>)
          /\ kind = "list" => arr = [j \in 1..NCols(X) |-> Zero]
    /\ kwargs \in [copy : BOOLEAN]
    /\ outcome = None
    /\ events = <<>>
    /\ s_local = None
    /\ trimming = Zero /\ lts = <<>> /\ vshift = <<>> /\ maxit = 0 /\ tol = Zero
    /\ loc = <<>>

\* _handle_zeros_in_scale(scale, copy)
CallHandleZeros ==
    /\ pc = "start"
    /\ op' = "_handle_zeros_in_scale"
    /\ heap' = _handle_zeros_in_scale(heap, scl, kwargs.copy).heap
    /\ outcome' = Return(_handle_zeros_in_scale(heap, scl, kwargs.copy).ret)
    /\ pc' = "done"
    /\ UNCHANGED <<X, trimming, events, kwargs, lts, vshift, maxit, tol, loc,
                   scl, s_local>>

\* scale_data(X, m, s) with the caller's scale
CallScaleData ==
    /\ pc = "start"
    /\ op' = "scale_data"
    /\ loc' = median(X)
    /\ heap' = scale_data(heap, X, median(X), scl).heap
    /\ outcome' = scale_data(heap, X, median(X), scl).outcome
    /\ events' = scale_data(heap, X, median(X), scl).divs
    /\ s_local' = scale_data(heap, X, median(X), scl).s
    /\ pc' = "done"
    /\ UNCHANGED <<X, trimming, kwargs, lts, vshift, maxit, tol, scl>>

\* _l1m_jacobian(a, X) at a point a: scl becomes the array dists that the
\* gradient hands to _handle_zeros_in_scale
CallJacobian ==
    /\ pc = "start"
    /\ op' = "_l1m_jacobian"
    /\ \E a \in {X[1], ColMean(X)} :
          /\ loc' = a
          /\ heap' = _l1m_jacobian(heap, a, 1).heap
          /\ outcome' = Return(_l1m_jacobian(heap, a, 1).ret)
          /\ scl' = Ref(_l1m_jacobian(heap, a, 1).given)
          /\ s_local' = Ref(_l1m_jacobian(heap, a, 1).dists)
    /\ events' = <<>>
    /\ pc' = "done"
    /\ UNCHANGED <<X, trimming, kwargs, lts, vshift, maxit, tol>>

NextHeap == CallHandleZeros \/ CallScaleData \/ CallJacobian

SpecHeap == InitHeap /\ [][NextHeap]_vars

\* every zero of old is 1.0 in new and every other entry is unchanged
ZerosReplaced(old, new) ==
    /\ Len(new) = Len(old)
    /\ \A i \in 1..Len(old) :
          /\ IsZero(old[i]) => new[i] = One
          /\ ~IsZero(old[i]) => new[i] = old[i]
          /\ ~IsZero(new[i])

\* C10: _handle_zeros_in_scale returns the scale with every zero replaced
\* by 1.0 and every other entry unchanged, for a scalar and for an array;
\* with copy=True the caller's array is left as it was, with copy=False it
\* is changed in place; scale_data and the L1-median gradient do not
\* modify the scale / distance array they hand over
C10_Step ==
    pc = "start" =>
        /\ (op' = "_handle_zeros_in_scale" /\ scl.t = "scalar")
              => /\ outcome' = Return(Scalar(IF IsZero(scl.v) THEN One ELSE scl.v))
                 /\ heap' = heap
        /\ (op' = "_handle_zeros_in_scale" /\ scl.t = "ndarray")
              => /\ outcome'.kind = "return" /\ outcome'.value.t = "ndarray"
                 /\ ZerosReplaced(heap[scl.addr], heap'[outcome'.value.addr])
                 /\ heap'[1] = heap[1]
                 /\ kwargs.copy => /\ heap'[scl.addr] = heap[scl.addr]
                                   /\ outcome'.value.addr # scl.addr
                 /\ ~kwargs.copy => /\ outcome'.value.addr = scl.addr
                                    /\ heap' = [heap EXCEPT ![scl.addr] =
                                                  heap'[scl.addr]]
        /\ (op' = "scale_data" /\ scl.t = "ndarray")
              => /\ heap'[scl.addr] = heap[scl.addr]
                 /\ heap'[1] = heap[1]
                 /\ ZerosReplaced(heap[scl.addr], heap'[s_local'.addr])
                 /\ events'[1].by = heap'[s_local'.addr]
        /\ op' = "_l1m_jacobian"
              => /\ heap'[1] = heap[1]
                 /\ heap'[scl'.addr] =
                       Tup([i \in 1..NRows(X) |->
                              _euclidnorm(Tup([j \in 1..NCols(X) |->
                                                 Sub(X[i][j], loc'[j])]))])
                 /\ ZerosReplaced(heap'[scl'.addr], heap'[s_local'.addr])

C10_ZerosHandledWithoutSideEffect == [][C10_Step]_vars

\* with copy=True an array holding a zero came back with 1.0 in its place
\* while the caller's array still holds the zero
C10_Witness ==
    /\ pc = "done" /\ op = "_handle_zeros_in_scale"
    /\ kwargs.copy /\ scl.t = "ndarray"
    /\ \E i \in 1..Len(heap[scl.addr]) :
          /\ IsZero(heap[scl.addr][i])
          /\ heap[outcome.value.addr][i] = One

====
